---------------------------- MODULE Spec2Model ----------------------------
(***************************************************************************)
(* Model of the pa11y accessibility-report service (src/index.js).         *)
(*                                                                         *)
(* Strings whose content the code inspects (issue codes, the url query     *)
(* parameter) are sequences of one-character strings, so that the regular  *)
(* expressions and the substring tests are computed, not assumed.          *)
(* The fields message, context, helpUrl and title of an issue are passed   *)
(* through or looked up without influencing anything else and are left     *)
(* out of the records.                                                     *)
(***************************************************************************)
EXTENDS Integers, Sequences, FiniteSets, TLC

(***************************************************************************)
(* Bounds of the model.                                                    *)
(***************************************************************************)
\* most raw issues the three scans of a served request report in total
MaxScanIssues == 3
\* longest raw issue list of an isolated grouping pass
MaxGroupIssues == 3

(***************************************************************************)
(* Characters and strings.                                                 *)
(***************************************************************************)
Digits == {"0", "1", "2", "3", "4", "5", "6", "7", "8", "9"}

IsDigit(c) == c \in Digits

\* s.includes(sub)
Includes(s, sub) ==
  \E i \in 1..(Len(s) - Len(sub) + 1) : \A k \in 1..Len(sub) : s[i + k - 1] = sub[k]

\* s.startsWith(pre)
StartsWith(s, pre) == Len(s) >= Len(pre) /\ \A k \in 1..Len(pre) : s[k] = pre[k]

\* the last index of the maximal run of digits of s that starts at i
\* (i - 1 when s[i] is no digit): what a greedy \d+ consumes from i
RECURSIVE RunEnd(_, _)
RunEnd(s, i) ==
  IF i > Len(s) \/ ~IsDigit(s[i]) THEN i - 1 ELSE RunEnd(s, i + 1)

\* s[i], "" past the end of s
CharAt(s, i) == IF i \in 1..Len(s) THEN s[i] ELSE ""

\* s.substring(i - 1, j) for 1-based i..j, cut to the string
Sub(s, i, j) == [k \in 1..((IF j > Len(s) THEN Len(s) ELSE j) - i + 1) |-> s[i + k - 1]]

(***************************************************************************)
(* WCAG_PRINCIPLES and the standards.                                      *)
(***************************************************************************)
Standards == <<"WCAG2A", "WCAG2AA", "WCAG2AAA">>

StdIx == 1..Len(Standards)

WCAG_PRINCIPLES(n) ==
  CASE n = "1" -> "Perceivable"
    [] n = "2" -> "Operable"
    [] n = "3" -> "Understandable"
    [] n = "4" -> "Robust"
    [] OTHER -> "Best Practices"

PrincipleWord == <<"P", "r", "i", "n", "c", "i", "p", "l", "e">>

\* issue.code.match(/Principle(\d)/): the digit of the leftmost match, "" if none
PrincipleNum(code) ==
  LET n == Len(PrincipleWord)
      hits == {i \in 1..(Len(code) - n) :
                 /\ \A k \in 1..n : code[i + k - 1] = PrincipleWord[k]
                 /\ IsDigit(code[i + n])}
  IN IF hits = {} THEN ""
     ELSE LET i == CHOOSE h \in hits : \A g \in hits : h <= g
          IN code[i + n]

PrincipleOf(code) == WCAG_PRINCIPLES(PrincipleNum(code))

(***************************************************************************)
(* getWcagTitleKey: /(\d+)_\d+\.(\d+)_(\d+)_(\d+)/                         *)
(***************************************************************************)
NoMatch == [ok |-> FALSE]

\* the match of the pattern that starts at s[i], with the groups it keeps;
\* ok is FALSE when the pattern does not match there.  Each \d+ takes the
\* whole run of digits: the character that must follow it is no digit.
TitleMatchAt(s, i) ==
  IF ~IsDigit(CharAt(s, i)) THEN NoMatch
  ELSE LET e1 == RunEnd(s, i)
       IN IF CharAt(s, e1 + 1) # "_" \/ ~IsDigit(CharAt(s, e1 + 2)) THEN NoMatch
  ELSE LET e2 == RunEnd(s, e1 + 2)
       IN IF CharAt(s, e2 + 1) # "." \/ ~IsDigit(CharAt(s, e2 + 2)) THEN NoMatch
  ELSE LET e3 == RunEnd(s, e2 + 2)
       IN IF CharAt(s, e3 + 1) # "_" \/ ~IsDigit(CharAt(s, e3 + 2)) THEN NoMatch
  ELSE LET e4 == RunEnd(s, e3 + 2)
       IN IF CharAt(s, e4 + 1) # "_" \/ ~IsDigit(CharAt(s, e4 + 2)) THEN NoMatch
  ELSE LET e5 == RunEnd(s, e4 + 2)
       IN [ok |-> TRUE,
           g1 |-> Sub(s, i, e1),
           g3 |-> Sub(s, e3 + 2, e4),
           g4 |-> Sub(s, e4 + 2, e5)]

Unknown == <<"U", "n", "k", "n", "o", "w", "n">>

\* the leftmost match of the pattern in s at or after i
RECURSIVE TitleMatch(_, _)
TitleMatch(s, i) ==
  IF i > Len(s) THEN NoMatch
  ELSE LET m == TitleMatchAt(s, i)
       IN IF m.ok THEN m ELSE TitleMatch(s, i + 1)

getWcagTitleKey(code) ==
  LET m == TitleMatch(code, 1)
  IN IF m.ok THEN m.g1 \o <<"_">> \o m.g3 \o <<"_">> \o m.g4 ELSE Unknown

getWcagLevel(standard) ==
  [A   |-> standard \in {"WCAG2A", "WCAG2AA", "WCAG2AAA"},
   AA  |-> standard \in {"WCAG2AA", "WCAG2AAA"},
   AAA |-> standard = "WCAG2AAA"]

(***************************************************************************)
(* Classifier.                                                             *)
(***************************************************************************)
getImpactLevel(issue) ==
  IF issue.type = "error" THEN "High"
  ELSE IF issue.type = "warning" THEN "Medium"
  ELSE IF issue.type = "notice" THEN "Low"
  ELSE "Unknown"

getResponsibility(issue) ==
  IF Includes(issue.code, <<"1", "_">>) THEN "Design Team"
  ELSE IF Includes(issue.code, <<"2", "_">>) THEN "Development Team"
  ELSE IF Includes(issue.code, <<"3", "_">>) THEN "Content Team"
  ELSE IF Includes(issue.code, <<"4", "_">>) THEN "Development Team"
  ELSE "General Accessibility Compliance"

(***************************************************************************)
(* Inputs: the issues the scan engine reports, and the url query values.   *)
(***************************************************************************)
WcagPrefix == <<"W", "C", "A", "G", "2", "A", "A", ".">>

GuidelineWord == <<"G", "u", "i", "d", "e", "l", "i", "n", "e">>

\* WCAG2AA.Principle1.Guideline1_1.1_1_1.H37
CodeAltText ==
  WcagPrefix \o PrincipleWord \o <<"1", ".">> \o GuidelineWord
    \o <<"1", "_", "1", ".", "1", "_", "1", "_", "1", ".", "H", "3", "7">>

\* WCAG2AA.Principle2.Guideline2_4.2_4_2.H25.2
CodePageTitle ==
  WcagPrefix \o PrincipleWord \o <<"2", ".">> \o GuidelineWord
    \o <<"2", "_", "4", ".", "2", "_", "4", "_", "2", ".", "H", "2", "5", ".", "2">>

\* WCAG2AA.Principle3.Guideline3_2.3_2_2.H32.2
CodeOnInput ==
  WcagPrefix \o PrincipleWord \o <<"3", ".">> \o GuidelineWord
    \o <<"3", "_", "2", ".", "3", "_", "2", "_", "2", ".", "H", "3", "2", ".", "2">>

\* WCAG2AA.Principle4.Guideline4_1.4_1_2.H91
CodeNameRole ==
  WcagPrefix \o PrincipleWord \o <<"4", ".">> \o GuidelineWord
    \o <<"4", "_", "1", ".", "4", "_", "1", "_", "2", ".", "H", "9", "1">>

\* color-contrast: a code of a runner that does not use the WCAG scheme
CodeNoPattern ==
  <<"c", "o", "l", "o", "r", "-", "c", "o", "n", "t", "r", "a", "s", "t">>

GroupCodes == {CodeAltText, CodePageTitle, CodeOnInput, CodeNameRole, CodeNoPattern}

\* What the grouper reads from a code, evaluated once for each code the
\* engine reports: its principle, its title key, its responsible team
Principles == [code \in GroupCodes |-> PrincipleOf(code)]

TitleKeys == [code \in GroupCodes |-> getWcagTitleKey(code)]

Responsibilities == [code \in GroupCodes |-> getResponsibility([code |-> code])]

\* "unknown" is what the engine reports for a type code it does not know
IssueTypes == {"error", "warning", "notice", "unknown"}

GroupIssues == [code : GroupCodes, type : IssueTypes, selector : {"#a"}]

SeqsUpTo(S, n) == UNION {[1..k -> S] : k \in 0..n}

\* the raw issue lists of an isolated grouping pass
GroupLists == SeqsUpTo(GroupIssues, MaxGroupIssues)

\* the raw issues of a served page: one with an element to capture, one
\* without a selector, one of a type the grouper does not know
ScanIssues ==
  {[code |-> CodeAltText, type |-> "error", selector |-> "#a"],
   [code |-> CodePageTitle, type |-> "warning", selector |-> ""],
   [code |-> CodeAltText, type |-> "unknown", selector |-> "#a"]}

\* the raw issue lists a scan of a served request may still report, given
\* that the scans that have finished reported n issues
ScanLists(n) == SeqsUpTo(ScanIssues, MaxScanIssues - n)

EngineErrors == {"net::ERR_NAME_NOT_RESOLVED"}

HttpPrefix == <<"h", "t", "t", "p", ":", "/", "/">>

HttpsPrefix == <<"h", "t", "t", "p", "s", ":", "/", "/">>

\* req.query: no url, ?url=, ftp://a, a http://a (not at the start),
\* HTTP://a, http:/a, http://a, https://a
Queries ==
  {[present |-> FALSE, url |-> <<>>],
   [present |-> TRUE, url |-> <<>>],
   [present |-> TRUE, url |-> <<"f", "t", "p", ":", "/", "/", "a">>],
   [present |-> TRUE, url |-> <<"a", " ">> \o HttpPrefix \o <<"a">>],
   [present |-> TRUE, url |-> <<"H", "T", "T", "P", ":", "/", "/", "a">>],
   [present |-> TRUE, url |-> <<"h", "t", "t", "p", ":", "/", "a">>],
   [present |-> TRUE, url |-> HttpPrefix \o <<"a">>],
   [present |-> TRUE, url |-> HttpsPrefix \o <<"a">>]}

(***************************************************************************)
(* State.                                                                  *)
(***************************************************************************)
VARIABLES
  req,                \* the request being served: app, endpoint, query
  response,           \* what res.status(..).json(..) sent; status 0: nothing yet
  pc,                 \* per standard: where its runTest call stands
  includeScreenshot,  \* per standard: runTest's third argument
  raw,                \* per standard: results.issues of the scan engine
  idx,                \* per standard: index of the issue the loop stands at
  grouped,            \* per standard: groupIssues' local `grouped`
  result,             \* per standard: the value runTest's promise settled to
  open,               \* per standard: browser sessions launched and not closed
  pa11yCalls,         \* per standard: invocations of the scan engine
  captures,           \* per standard: indexes captureScreenshot was called for
  engine,             \* per standard: how the scan engine answered
  order               \* the standards in the order their promises settled

vars == <<req, response, pc, includeScreenshot, raw, idx, grouped, result,
          open, pa11yCalls, captures, engine, order>>

Pending == [pending |-> TRUE]

Settled(r) == "standard" \in DOMAIN r

NoRequest == [app |-> "none", endpoint |-> "none",
              query |-> [present |-> FALSE, url |-> <<>>]]

Null == [kind |-> "null"]

\* `data:image/png;base64,${base64Image}`
DataUri == [kind |-> "string", prefix |-> "data:image/png;base64,", base64 |-> "iVBORw0KGgo="]

(***************************************************************************)
(* groupIssues.                                                            *)
(***************************************************************************)
\* fault seeded for C9: typeMapping without its notice entry
typeMapping_NoNotice(type) ==
  IF type = "error" THEN "errors"
  ELSE IF type = "warning" THEN "warnings"
  ELSE ""

\* typeMapping[issue.type], "" for undefined
typeMapping(type) ==
  IF type = "error" THEN "errors"
  ELSE IF type = "warning" THEN "warnings"
  ELSE IF type = "notice" THEN "notices"
  ELSE ""

EmptyBuckets == [errors |-> <<>>, warnings |-> <<>>, notices |-> <<>>]

\* fault seeded for C7: only the issues that reach a bucket are counted
Occurrences_Bucketed(issues, code) ==
  Cardinality({k \in 1..Len(issues) :
                 issues[k].code = code /\ typeMapping(issues[k].type) # ""})

\* issues.filter((i) => i.code === issue.code).length
Occurrences(issues, code) ==
  Cardinality({k \in 1..Len(issues) : issues[k].code = code})

\* issueData before the screenshot field is set
IssueData(issues, i, standard) ==
  LET issue == issues[i]
  IN [titleKey |-> TitleKeys[issue.code],
      code |-> issue.code,
      level |-> getWcagLevel(standard),
      selector |-> issue.selector,
      impact |-> getImpactLevel(issue),
      responsibility |-> Responsibilities[issue.code],
      occurrences |-> Occurrences(issues, issue.code)]

\* issueData.screenshot = v
WithScreenshot(d, v) ==
  [titleKey |-> d.titleKey, code |-> d.code, level |-> d.level,
   selector |-> d.selector, impact |-> d.impact,
   responsibility |-> d.responsibility, occurrences |-> d.occurrences,
   screenshot |-> v]

\* if (!grouped[principle]) grouped[principle] = {errors: [], ...}
EnsurePrinciple(g, p) == IF p \in DOMAIN g THEN g ELSE (p :> EmptyBuckets) @@ g

\* grouped[principle][typeMapping[issue.type]].push(issueData)
Push(g, p, bucket, data) == [g EXCEPT ![p][bucket] = Append(@, data)]

\* captureScreenshot up to its first await: "null" when it returns null at
\* once (no selector), "launch" when it has called puppeteer.launch
CaptureEntry(selector) == IF selector = "" THEN "null" ELSE "launch"

\* The loop of groupIssues from issue i on, up to the next point where it
\* waits for the browser (done = FALSE, idx the issue whose screenshot is
\* being captured) or to its end (done = TRUE).  log lists the issues
\* captureScreenshot was called for.
RECURSIVE GroupLoop(_, _, _, _, _, _)
GroupLoop(issues, standard, inc, g, i, log) ==
  IF i > Len(issues)
  THEN [done |-> TRUE, grouped |-> g, idx |-> i, log |-> log]
  ELSE
    LET issue == issues[i]
        p == Principles[issue.code]
        g1 == EnsurePrinciple(g, p)
        bucket == typeMapping(issue.type)
        data == IssueData(issues, i, standard)
    IN IF bucket = ""
       THEN GroupLoop(issues, standard, inc, g1, i + 1, log)
       ELSE IF ~inc
       THEN GroupLoop(issues, standard, inc, Push(g1, p, bucket, data), i + 1, log)
       ELSE IF CaptureEntry(issue.selector) = "null"
       THEN GroupLoop(issues, standard, inc,
                      Push(g1, p, bucket, WithScreenshot(data, Null)),
                      i + 1, Append(log, i))
       ELSE [done |-> FALSE, grouped |-> g1, idx |-> i, log |-> Append(log, i)]

(***************************************************************************)
(* runTest.                                                                *)
(***************************************************************************)
\* runTest takes up what the grouping loop reached: it returns
\* {standard, grouped} at the end of the loop, and waits for the browser
\* otherwise
Continue(s, r) ==
  /\ grouped' = [grouped EXCEPT ![s] = r.grouped]
  /\ idx' = [idx EXCEPT ![s] = r.idx]
  /\ captures' = [captures EXCEPT ![s] = r.log]
  /\ IF r.done
     THEN /\ result' = [result EXCEPT ![s] =
                          [standard |-> Standards[s], grouped |-> r.grouped]]
          /\ pc' = [pc EXCEPT ![s] = "done"]
          /\ order' = Append(order, s)
     ELSE /\ pc' = [pc EXCEPT ![s] = "launch"]
          /\ UNCHANGED <<result, order>>

\* the catch of runTest: {standard, error: err.message}
Catch(s, msg) ==
  /\ result' = [result EXCEPT ![s] = [standard |-> Standards[s], error |-> msg]]
  /\ pc' = [pc EXCEPT ![s] = "done"]
  /\ order' = Append(order, s)

\* pa11y resolves with results.issues = issues
Pa11yResolve(s, issues) ==
  /\ pc[s] = "pa11y"
  /\ req.app = "index.js"
  /\ raw' = [raw EXCEPT ![s] = issues]
  /\ engine' = [engine EXCEPT ![s] = "resolved"]
  /\ Continue(s, GroupLoop(issues, Standards[s], includeScreenshot[s],
                           <<>>, 1, <<>>))
  /\ UNCHANGED <<req, response, includeScreenshot, open, pa11yCalls>>

\* pa11y rejects with an error of message msg
Pa11yReject(s, msg) ==
  /\ pc[s] = "pa11y"
  /\ engine' = [engine EXCEPT ![s] = "rejected"]
  /\ Catch(s, msg)
  /\ UNCHANGED <<req, response, includeScreenshot, raw, idx, grouped, open,
                 pa11yCalls, captures>>

\* runTest of the summary-only server: {standard, grouped: results.issues}
Pa11yResolveRaw(s, issues) ==
  /\ pc[s] = "pa11y"
  /\ req.app = "part_000"
  /\ raw' = [raw EXCEPT ![s] = issues]
  /\ result' = [result EXCEPT ![s] = [standard |-> Standards[s], grouped |-> issues]]
  /\ pc' = [pc EXCEPT ![s] = "done"]
  /\ order' = Append(order, s)
  /\ engine' = [engine EXCEPT ![s] = "resolved"]
  /\ UNCHANGED <<req, response, includeScreenshot, idx, grouped, open,
                 pa11yCalls, captures>>

(***************************************************************************)
(* captureScreenshot, one action per await.                                *)
(***************************************************************************)
\* captureScreenshot returns v: the issue is pushed and the loop goes on
Return(s, v) ==
  LET issues == raw[s]
      issue == issues[idx[s]]
      data == WithScreenshot(IssueData(issues, idx[s], Standards[s]), v)
      g2 == Push(grouped[s], Principles[issue.code], typeMapping(issue.type), data)
  IN Continue(s, GroupLoop(issues, Standards[s], includeScreenshot[s], g2,
                           idx[s] + 1, captures[s]))

\* a step inside the try block fails: the catch logs, line 116 is next
ToFinalClose(s) ==
  /\ pc' = [pc EXCEPT ![s] = "closeFinal"]
  /\ UNCHANGED <<result, order, grouped, idx, captures, open>>

Goes(s, to) ==
  /\ pc' = [pc EXCEPT ![s] = to]
  /\ UNCHANGED <<result, order, grouped, idx, captures, open>>

Frame == UNCHANGED <<req, response, includeScreenshot, raw, pa11yCalls, engine>>

\* await puppeteer.launch(..)
Launch(s) ==
  /\ pc[s] = "launch"
  /\ Frame
  /\ \/ /\ open' = [open EXCEPT ![s] = @ + 1]
        /\ pc' = [pc EXCEPT ![s] = "newPage"]
        /\ UNCHANGED <<result, order, grouped, idx, captures>>
     \/ /\ Catch(s, "Failed to launch the browser process")
        /\ UNCHANGED <<grouped, idx, captures, open>>

\* await browser.newPage(), outside the try
NewPage(s) ==
  /\ pc[s] = "newPage"
  /\ Frame
  /\ \/ Goes(s, "goto")
     \/ /\ Catch(s, "Protocol error (Target.createTarget)")
        /\ UNCHANGED <<grouped, idx, captures, open>>

\* await page.goto(url, ..)
Goto(s) ==
  /\ pc[s] = "goto"
  /\ Frame
  /\ \/ Goes(s, "exists")
     \/ ToFinalClose(s)

\* await page.evaluate(sel => !!document.querySelector(sel), selector)
ElementExists(s) ==
  /\ pc[s] = "exists"
  /\ Frame
  /\ \/ Goes(s, "scroll")
     \/ Goes(s, "closeNotFound")
     \/ ToFinalClose(s)

\* fault seeded for C8: the not-found path returns without closing the browser
CloseNotFound_NoClose(s) ==
  /\ pc[s] = "closeNotFound"
  /\ Frame
  /\ UNCHANGED open
  /\ Return(s, Null)

\* line 89: await browser.close(); return null
CloseNotFound(s) ==
  /\ pc[s] = "closeNotFound"
  /\ Frame
  /\ \/ /\ open' = [open EXCEPT ![s] = @ - 1]
        /\ Return(s, Null)
     \/ ToFinalClose(s)

\* await page.evaluate(.. el.scrollIntoView ..)
Scroll(s) ==
  /\ pc[s] = "scroll"
  /\ Frame
  /\ \/ Goes(s, "wait")
     \/ ToFinalClose(s)

\* await page.waitForSelector(selector, {visible: true, timeout: 5000})
WaitVisible(s) ==
  /\ pc[s] = "wait"
  /\ Frame
  /\ \/ Goes(s, "query")
     \/ ToFinalClose(s)

\* await page.$(selector): an element, null, or an error
QueryElement(s) ==
  /\ pc[s] = "query"
  /\ Frame
  /\ \/ Goes(s, "shot")
     \/ ToFinalClose(s)

\* await element.screenshot()
ElementScreenshot(s) ==
  /\ pc[s] = "shot"
  /\ Frame
  /\ \/ Goes(s, "closeCaptured")
     \/ ToFinalClose(s)

\* line 107: await browser.close(); return the data URI
CloseCaptured(s) ==
  /\ pc[s] = "closeCaptured"
  /\ Frame
  /\ \/ /\ open' = [open EXCEPT ![s] = @ - 1]
        /\ Return(s, DataUri)
     \/ ToFinalClose(s)

\* line 116: await browser.close(); return null, outside the try
CloseFinal(s) ==
  /\ pc[s] = "closeFinal"
  /\ Frame
  /\ \/ /\ open' = [open EXCEPT ![s] = @ - 1]
        /\ Return(s, Null)
     \/ /\ Catch(s, "Protocol error (Browser.close)")
        /\ UNCHANGED <<grouped, idx, captures, open>>

(***************************************************************************)
(* The endpoints.                                                          *)
(***************************************************************************)
\* fault seeded for C5: the pattern without its ^ anchor
ValidUrl_Unanchored(q) ==
  /\ q.present
  /\ q.url # <<>>
  /\ (Includes(q.url, HttpPrefix) \/ Includes(q.url, HttpsPrefix))

\* !req.query.url || !/^https?:\/\//.test(req.query.url) is false
ValidUrl(q) ==
  /\ q.present
  /\ q.url # <<>>
  /\ (StartsWith(q.url, HttpPrefix) \/ StartsWith(q.url, HttpsPrefix))

BadRequest == [status |-> 400, body |-> [error |-> "A valid URL is required"]]

\* standards.map((standard) => runTest(url, standard, flag)): every runTest
\* runs up to its await of pa11y
StartScans(flag) ==
  /\ pc' = [s \in StdIx |-> "pa11y"]
  /\ includeScreenshot' = [s \in StdIx |-> flag]
  /\ pa11yCalls' = [s \in StdIx |-> pa11yCalls[s] + 1]
  /\ engine' = [s \in StdIx |-> "pending"]
  /\ UNCHANGED response

\* return res.status(400).json({error: "A valid URL is required"})
Reject400 ==
  /\ response' = BadRequest
  /\ UNCHANGED <<pc, includeScreenshot, pa11yCalls, engine>>

\* fault seeded for C6: the summary handler leaves runTest's third argument
\* to its default, true
GetSummary_DefaultFlag(q) ==
  /\ req = NoRequest
  /\ req' = [app |-> "index.js", endpoint |-> "summary", query |-> q]
  /\ IF ValidUrl(q) THEN StartScans(TRUE) ELSE Reject400
  /\ UNCHANGED <<raw, idx, grouped, result, open, captures, order>>

\* app.get("/api/test/summary")
GetSummary(q) ==
  /\ req = NoRequest
  /\ req' = [app |-> "index.js", endpoint |-> "summary", query |-> q]
  /\ IF ValidUrl(q) THEN StartScans(FALSE) ELSE Reject400
  /\ UNCHANGED <<raw, idx, grouped, result, open, captures, order>>

\* app.get("/api/test/full")
GetFull(q) ==
  /\ req = NoRequest
  /\ req' = [app |-> "index.js", endpoint |-> "full", query |-> q]
  /\ IF ValidUrl(q) THEN StartScans(TRUE) ELSE Reject400
  /\ UNCHANGED <<raw, idx, grouped, result, open, captures, order>>

\* app.get("/api/test/summary") of the summary-only server
GetSummaryRaw(q) ==
  /\ req = NoRequest
  /\ req' = [app |-> "part_000", endpoint |-> "summary", query |-> q]
  /\ IF ValidUrl(q) THEN StartScans(FALSE) ELSE Reject400
  /\ UNCHANGED <<raw, idx, grouped, result, open, captures, order>>

\* fault seeded for C1: the results collected as the promises settle
AllResults_ByCompletion == [k \in 1..Len(order) |-> result[order[k]]]

\* what Promise.all resolves to: the results in the order of `standards`
AllResults == [s \in StdIx |-> result[s]]

\* res.status(200).json(results), once Promise.all has resolved
Respond ==
  /\ req # NoRequest
  /\ response.status = 0
  /\ \A s \in StdIx : pc[s] = "done"
  /\ response' = [status |-> 200, body |-> AllResults]
  /\ UNCHANGED <<req, pc, includeScreenshot, raw, idx, grouped, result, open,
                 pa11yCalls, captures, engine, order>>

(***************************************************************************)
(* The service: one request served from start to response.                 *)
(***************************************************************************)
Init ==
  /\ req = NoRequest
  /\ response = [status |-> 0]
  /\ pc = [s \in StdIx |-> "idle"]
  /\ includeScreenshot = [s \in StdIx |-> FALSE]
  /\ raw = [s \in StdIx |-> <<>>]
  /\ idx = [s \in StdIx |-> 0]
  /\ grouped = [s \in StdIx |-> <<>>]
  /\ result = [s \in StdIx |-> Pending]
  /\ open = [s \in StdIx |-> 0]
  /\ pa11yCalls = [s \in StdIx |-> 0]
  /\ captures = [s \in StdIx |-> <<>>]
  /\ engine = [s \in StdIx |-> "none"]
  /\ order = <<>>

\* the raw issues the finished scans of the request have reported
Reported == Len(raw[1]) + Len(raw[2]) + Len(raw[3])

\* the scan of standard s succeeds, with one of the lists still allowed
ScanResolves(s) ==
  /\ pc[s] = "pa11y"
  /\ \E issues \in ScanLists(Reported) : Pa11yResolve(s, issues)

ScanResolvesRaw(s) ==
  /\ pc[s] = "pa11y"
  /\ \E issues \in ScanLists(Reported) : Pa11yResolveRaw(s, issues)

Next ==
  \/ \E q \in Queries : GetSummary(q)
  \/ \E q \in Queries : GetFull(q)
  \/ \E q \in Queries : GetSummaryRaw(q)
  \/ \E s \in StdIx : ScanResolves(s)
  \/ \E s \in StdIx : ScanResolvesRaw(s)
  \/ \E s \in StdIx, msg \in EngineErrors : Pa11yReject(s, msg)
  \/ \E s \in StdIx : Launch(s)
  \/ \E s \in StdIx : NewPage(s)
  \/ \E s \in StdIx : Goto(s)
  \/ \E s \in StdIx : ElementExists(s)
  \/ \E s \in StdIx : CloseNotFound(s)
  \/ \E s \in StdIx : Scroll(s)
  \/ \E s \in StdIx : WaitVisible(s)
  \/ \E s \in StdIx : QueryElement(s)
  \/ \E s \in StdIx : ElementScreenshot(s)
  \/ \E s \in StdIx : CloseCaptured(s)
  \/ \E s \in StdIx : CloseFinal(s)
  \/ Respond

Spec == Init /\ [][Next]_vars

(***************************************************************************)
(* One grouping pass in isolation: a single call                           *)
(* runTest(url, "WCAG2AA", false) waits for the scan engine, which answers *)
(* with any raw issue list over GroupIssues.                               *)
(***************************************************************************)
InitGroup ==
  /\ req = [app |-> "index.js", endpoint |-> "runTest",
            query |-> [present |-> TRUE, url |-> HttpsPrefix \o <<"a">>]]
  /\ response = [status |-> 0]
  /\ pc = [s \in StdIx |-> IF Standards[s] = "WCAG2AA" THEN "pa11y" ELSE "idle"]
  /\ includeScreenshot = [s \in StdIx |-> FALSE]
  /\ raw = [s \in StdIx |-> <<>>]
  /\ idx = [s \in StdIx |-> 0]
  /\ grouped = [s \in StdIx |-> <<>>]
  /\ result = [s \in StdIx |-> Pending]
  /\ open = [s \in StdIx |-> 0]
  /\ pa11yCalls = [s \in StdIx |-> IF Standards[s] = "WCAG2AA" THEN 1 ELSE 0]
  /\ captures = [s \in StdIx |-> <<>>]
  /\ engine = [s \in StdIx |-> IF Standards[s] = "WCAG2AA" THEN "pending" ELSE "none"]
  /\ order = <<>>

GroupScanResolves(s) ==
  /\ pc[s] = "pa11y"
  /\ \E issues \in GroupLists : Pa11yResolve(s, issues)

NextGroup ==
  \/ \E s \in StdIx : GroupScanResolves(s)
  \/ \E s \in StdIx, msg \in EngineErrors : Pa11yReject(s, msg)

SpecGroup == InitGroup /\ [][NextGroup]_vars

(***************************************************************************)
(* Vocabulary of the properties.                                           *)
(***************************************************************************)
Range(f) == {f[k] : k \in DOMAIN f}

Buckets == {"errors", "warnings", "notices"}

KnownTypes == {"error", "warning", "notice"}

\* every EnrichedIssue of a GroupedReport
AllIssues(g) == UNION {Range(g[p][b]) : <<p, b>> \in (DOMAIN g) \X Buckets}

\* the number of EnrichedIssues of a GroupedReport
CountIssues(g) ==
  Cardinality(UNION {{<<p, b, k>> : k \in 1..Len(g[p][b])} :
                       <<p, b>> \in (DOMAIN g) \X Buckets})

HasReport(r) == "grouped" \in DOMAIN r

HasError(r) == "error" \in DOMAIN r

CaptureStates ==
  {"launch", "newPage", "goto", "exists", "closeNotFound", "scroll", "wait",
   "query", "shot", "closeCaptured", "closeFinal"}

\* the runTest call of standard s is inside a captureScreenshot call
InCapture(s) == pc[s] \in CaptureStates

IsPrefix(a, b) == Len(a) <= Len(b) /\ SubSeq(b, 1, Len(a)) = a

\* the indexes of the raw issues of a recognized type, ascending
KnownIdx(issues) ==
  SelectSeq([k \in 1..Len(issues) |-> k], LAMBDA k : issues[k].type \in KnownTypes)

(***************************************************************************)
(* C1                                                                      *)
(***************************************************************************)
\* C1: a 200 response is a list of exactly 3 StandardResults, the one at
\* position s being that of the s-th standard of WCAG2A, WCAG2AA, WCAG2AAA
\* (a grouped report or an error, never both), whatever the order in which
\* the three runTest calls settled; and the scan engine is invoked at most
\* once per standard, exactly once when the response has been sent.
C1_ThreeResultsInOrder ==
  /\ \A s \in StdIx : pa11yCalls[s] <= 1
  /\ response.status = 200 =>
       /\ DOMAIN response.body = 1..3
       /\ \A s \in DOMAIN response.body :
            /\ Settled(response.body[s])
            /\ response.body[s].standard = Standards[s]
            /\ HasReport(response.body[s]) # HasError(response.body[s])
       /\ \A s \in StdIx : pa11yCalls[s] = 1

\* the response has been sent after the scans settled in the order WCAG2AAA,
\* WCAG2AA, WCAG2A, the second of them failed
C1_Witness ==
  /\ response.status = 200
  /\ order = <<3, 2, 1>>
  /\ HasError(response.body[2])
  /\ HasReport(response.body[1])
  /\ HasReport(response.body[3])

(***************************************************************************)
(* C2                                                                      *)
(***************************************************************************)
\* C2: when the scan engine threw for one standard s and succeeded for the
\* other two, the response has 3 entries, the entry of s is {standard: s,
\* error: the thrown message} without a grouped field, and each of the other
\* two carries a grouped report and no error.
C2_FailureIsolation ==
  response.status = 200 =>
    \A s \in StdIx :
      (engine[s] = "rejected" /\ \A u \in StdIx \ {s} : engine[u] = "resolved") =>
        /\ DOMAIN response.body = 1..3
        /\ response.body[s].standard = Standards[s]
        /\ HasError(response.body[s])
        /\ ~HasReport(response.body[s])
        /\ response.body[s].error \in EngineErrors
        /\ \A u \in StdIx \ {s} :
             HasReport(response.body[u]) /\ ~HasError(response.body[u])

(***************************************************************************)
(* C3                                                                      *)
(***************************************************************************)
\* C3: captureScreenshot never throws, so the StandardResult of a standard
\* whose scan succeeded is never error-tagged.
C3_CaptureNeverThrows ==
  \A s \in StdIx :
    (engine[s] = "resolved" /\ Settled(result[s])) =>
      HasReport(result[s]) /\ ~HasError(result[s])

(***************************************************************************)
(* C4                                                                      *)
(***************************************************************************)
\* C4: no browser session leak: a runTest call that is not inside a
\* captureScreenshot call holds no open browser session.
C4_NoSessionLeak ==
  \A s \in StdIx : ~InCapture(s) => open[s] = 0

(***************************************************************************)
(* C5                                                                      *)
(***************************************************************************)
\* the url query parameter is missing or does not start with http:// or
\* https://
C5_Rejected(q) ==
  \/ ~q.present
  \/ ~(StartsWith(q.url, HttpPrefix) \/ StartsWith(q.url, HttpsPrefix))

\* C5: for a request whose url is missing or does not start with http:// or
\* https:// the response is 400 {"error": "A valid URL is required"} and
\* neither the scan engine nor the screenshot capturer is invoked; for a
\* request whose url is valid the scans are started and the only response
\* ever sent has status 200.
C5_InvalidUrlNeverScanned ==
  req # NoRequest =>
    IF C5_Rejected(req.query)
    THEN /\ response.status = 400
         /\ response.body = [error |-> "A valid URL is required"]
         /\ \A s \in StdIx :
              /\ pa11yCalls[s] = 0
              /\ captures[s] = <<>>
              /\ open[s] = 0
              /\ pc[s] = "idle"
    ELSE /\ response.status \in {0, 200}
         /\ \A s \in StdIx : pa11yCalls[s] = 1 /\ pc[s] # "idle"

\* a request to /api/test/full whose url holds http:// but not at its start
\* has been answered
C5_Witness ==
  /\ req.endpoint = "full"
  /\ req.query.present
  /\ Includes(req.query.url, HttpPrefix)
  /\ response.status = 400

(***************************************************************************)
(* C6                                                                      *)
(***************************************************************************)
\* a data-URI string or null
C6_DataUriOrNull(v) ==
  \/ v.kind = "null"
  \/ v.kind = "string" /\ v.prefix = "data:image/png;base64,"

\* C6: in summary mode captureScreenshot is never invoked, no browser
\* session is launched and no EnrichedIssue of any result has a screenshot
\* field; in full mode every EnrichedIssue of every grouped report has a
\* screenshot field that is a data-URI string or null.
C6_ModeDecidesScreenshots ==
  req.app = "index.js" =>
    \A s \in StdIx :
      /\ req.endpoint = "summary" =>
           /\ captures[s] = <<>>
           /\ open[s] = 0
           /\ ~InCapture(s)
           /\ HasReport(result[s]) =>
                \A i \in AllIssues(result[s].grouped) : "screenshot" \notin DOMAIN i
      /\ (req.endpoint = "full" /\ HasReport(result[s])) =>
           \A i \in AllIssues(result[s].grouped) :
             "screenshot" \in DOMAIN i /\ C6_DataUriOrNull(i.screenshot)
      /\ response.status = 200 => response.body[s] = result[s]

\* a full report has been sent in which one issue carries a data URI and
\* another one null
C6_Witness ==
  /\ req.endpoint = "full"
  /\ response.status = 200
  /\ \E s \in StdIx :
       /\ HasReport(response.body[s])
       /\ \E i, j \in AllIssues(response.body[s].grouped) :
            i.screenshot.kind = "string" /\ j.screenshot.kind = "null"

(***************************************************************************)
(* C7                                                                      *)
(***************************************************************************)
\* C7: every EnrichedIssue of the grouped report of a standard has
\* occurrences >= 1, equal to the number of raw issues of that standard's
\* own raw list with exactly its code, raw issues of an unrecognized type
\* included.
C7_OccurrenceCount ==
  req.app = "index.js" =>
    \A s \in StdIx :
      HasReport(result[s]) =>
        \A i \in AllIssues(result[s].grouped) :
          /\ i.occurrences >= 1
          /\ i.occurrences = Len(SelectSeq(raw[s], LAMBDA r : r.code = i.code))

\* a standard reported an issue and a second one of the same code but of an
\* unrecognized type: one EnrichedIssue, occurrences 2; another standard
\* reported that code once: occurrences 1
C7_Witness ==
  \E s, u \in StdIx :
    /\ s # u
    /\ HasReport(result[s])
    /\ HasReport(result[u])
    /\ Len(raw[s]) = 2
    /\ Len(raw[u]) = 1
    /\ raw[s][1].code = raw[s][2].code
    /\ raw[s][2].type \notin KnownTypes
    /\ raw[u][1].code = raw[s][1].code
    /\ \E i \in AllIssues(result[s].grouped) : i.occurrences = 2
    /\ \E j \in AllIssues(result[u].grouped) : j.occurrences = 1

(***************************************************************************)
(* C8                                                                      *)
(***************************************************************************)
\* C8: in one grouping pass the captures are sequential and in raw-list
\* order: at most one screenshot browser session is open per standard (so at
\* most 3 per request), captureScreenshot is called for the issues of a
\* recognized type in the order of the raw list, and while a capture is
\* under way it is that of the last issue reached, every issue before it
\* having been pushed with its screenshot.
C8_SequentialCaptures ==
  /\ open[1] + open[2] + open[3] <= 3
  /\ \A s \in StdIx :
       /\ open[s] <= 1
       /\ IsPrefix(captures[s], KnownIdx(raw[s]))
       /\ InCapture(s) =>
            /\ includeScreenshot[s]
            /\ captures[s] # <<>>
            /\ idx[s] = captures[s][Len(captures[s])]
            /\ CountIssues(grouped[s]) = Len(captures[s]) - 1

\* the second capture of a pass has its session open, after the first one
\* returned, while the pass of another standard has a session open too
C8_Witness ==
  \E s, u \in StdIx :
    /\ s # u
    /\ Len(captures[s]) = 2
    /\ pc[s] = "goto"
    /\ open[s] = 1
    /\ CountIssues(grouped[s]) = 1
    /\ pc[u] = "goto"
    /\ open[u] = 1

(***************************************************************************)
(* C9                                                                      *)
(***************************************************************************)
\* the principle of a code: the name of its principle digit 1-4, otherwise
\* "Best Practices"
C9_Principle(code) ==
  LET n == PrincipleNum(code)
  IN IF n = "1" THEN "Perceivable"
     ELSE IF n = "2" THEN "Operable"
     ELSE IF n = "3" THEN "Understandable"
     ELSE IF n = "4" THEN "Robust"
     ELSE "Best Practices"

\* the codes of the raw issues of the given type and principle, in raw-list
\* order, each with the impact expected
C9_Expected(issues, p, type, impact) ==
  LET sel == SelectSeq(issues, LAMBDA r : r.type = type /\ C9_Principle(r.code) = p)
  IN [k \in 1..Len(sel) |-> <<sel[k].code, impact>>]

C9_Listed(bucket) == [k \in 1..Len(bucket) |-> <<bucket[k].code, bucket[k].impact>>]

\* C9: the errors, warnings and notices lists of a principle are exactly the
\* raw issues of type error, warning and notice of that principle, in
\* raw-list order, with impact High, Medium and Low; a raw issue of another
\* type is in no list, and the EnrichedIssues are as many as the raw issues
\* of the three known types.
C9_BucketingByType ==
  req.app = "index.js" =>
    \A s \in StdIx :
      HasReport(result[s]) =>
        LET g == result[s].grouped
            issues == raw[s]
        IN /\ \A k \in 1..Len(issues) :
                issues[k].type \in KnownTypes => C9_Principle(issues[k].code) \in DOMAIN g
           /\ \A p \in DOMAIN g :
                /\ C9_Listed(g[p].errors) = C9_Expected(issues, p, "error", "High")
                /\ C9_Listed(g[p].warnings) = C9_Expected(issues, p, "warning", "Medium")
                /\ C9_Listed(g[p].notices) = C9_Expected(issues, p, "notice", "Low")
           /\ CountIssues(g) = Len(KnownIdx(issues))

\* a report of two notices of one principle with an issue of an unknown type
\* between them
C9_Witness ==
  \E s \in StdIx :
    /\ HasReport(result[s])
    /\ Len(raw[s]) = 3
    /\ raw[s][1].type = "notice"
    /\ raw[s][2].type = "unknown"
    /\ raw[s][3].type = "notice"
    /\ raw[s][1].code # raw[s][3].code
    /\ C9_Principle(raw[s][1].code) = "Best Practices"
    /\ C9_Principle(raw[s][3].code) = "Robust"
    /\ CountIssues(result[s].grouped) = 2

(***************************************************************************)
(* C10                                                                     *)
(***************************************************************************)
\* the team of principle digit n
C10_Team(n) ==
  IF n = <<"1">> THEN "Design Team"
  ELSE IF n = <<"2">> THEN "Development Team"
  ELSE IF n = <<"3">> THEN "Content Team"
  ELSE "Development Team"

\* C10: the responsibility of an issue whose code embeds the criterion
\* pattern is the team of the principle digit N of its titleKey N_K_J
\* (1 Design, 2 Development, 3 Content, 4 Development), and the general
\* fallback string for a code that holds none of 1_, 2_, 3_, 4_.
C10_ResponsibilityByPrinciple ==
  req.app = "index.js" =>
    \A s \in StdIx :
      HasReport(result[s]) =>
        \A i \in AllIssues(result[s].grouped) :
          LET n == SubSeq(i.titleKey, 1, RunEnd(i.titleKey, 1))
          IN /\ n \in {<<"1">>, <<"2">>, <<"3">>, <<"4">>} =>
                  i.responsibility = C10_Team(n)
             /\ (\A d \in {"1", "2", "3", "4"} : ~Includes(i.code, <<d, "_">>)) =>
                  i.responsibility = "General Accessibility Compliance"

=============================================================================
